---- MODULE Spec2Model ----
(***************************************************************************)
(* QuiverInsiderTradingUniverseSelectionAlgorithm: the history sanity      *)
(* check of Initialize and the universe-selection filter                   *)
(* UniverseSelection, as a state machine.                                  *)
(*                                                                         *)
(* Shares is a whole number of shares, PricePerShare is a decimal with two *)
(* places and is held in cents, so a notional is held in cents as well.    *)
(* A nullable field is <<>> when it is None and <<v>> when it holds v.     *)
(***************************************************************************)
EXTENDS Integers, Sequences, FiniteSets, TLC

VARIABLES pc, history, dateIndex, error, data, datumIndex, symbol_data, result, log

vars == <<pc, history, dateIndex, error, data, datumIndex, symbol_data, result, log>>

----------------------------------------------------------------------------
(* Bounds of the model *)

MaxLen == 4

MaxPeriods == 2

MaxLog == 6

----------------------------------------------------------------------------
(* Program constants *)

Threshold == 100000

MinHistoryRecords == 300

ExpectedHistoryCount == 1

MinGroupSize == 2

CentsPerUnit == 100

----------------------------------------------------------------------------
(* Inputs *)

None == <<>>

Some(v) == <<v>>

Symbols == {"A", "B"}

Fields ==
    { <<Some(1), Some(5000000)>>, <<Some(1), Some(5000001)>>, <<Some(2), Some(5000001)>>,
      <<None, Some(5000000)>>, <<Some(1), None>>, <<None, None>> }

Records == {[Symbol |-> s, Shares |-> f[1], PricePerShare |-> f[2]] : s \in Symbols, f \in Fields}

Batches == UNION {[1..n -> Records] : n \in 0..MaxLen}

CallFields == { <<Some(2), Some(5000001)>>, <<Some(1), Some(5000000)>>, <<None, Some(5000000)>> }

CallRecords ==
    {[Symbol |-> "A", Shares |-> f[1], PricePerShare |-> f[2]] : f \in CallFields}
    \cup {[Symbol |-> "B", Shares |-> Some(2), PricePerShare |-> Some(5000001)],
          [Symbol |-> "B", Shares |-> Some(1), PricePerShare |-> None]}

CallBatches == UNION {[1..n -> CallRecords] : n \in 0..MaxLen}

PeriodSizes == {0, 299, 300, 301}

Histories == UNION {[1..n -> PeriodSizes] : n \in 0..MaxPeriods}

----------------------------------------------------------------------------
(* The dictionary symbol_data: a sequence of entries in insertion order *)

HasKey(sd, symbol) == \E k \in 1..Len(sd) : sd[k].key = symbol

AddKeyAlways(sd, symbol) == Append(sd, [key |-> symbol, value |-> <<>>])

AddKey(sd, symbol) ==
    IF ~HasKey(sd, symbol) THEN Append(sd, [key |-> symbol, value |-> <<>>]) ELSE sd

AppendTo(sd, symbol, datum) ==
    [k \in 1..Len(sd) |->
        IF sd[k].key = symbol
        THEN [key |-> symbol, value |-> Append(sd[k].value, datum)]
        ELSE sd[k]]

GroupStep(sd, datum) == AppendTo(AddKey(sd, datum.Symbol), datum.Symbol, datum)

----------------------------------------------------------------------------
(* The selection criteria *)

PresentSharesOnly(x) == x.Shares # None

Present(x) == x.Shares # None /\ x.PricePerShare # None

CanMultiply(x) == x.Shares # None /\ x.PricePerShare # None

Product(x) == IF CanMultiply(x) THEN x.Shares[1] * x.PricePerShare[1] ELSE 0

Terms(d) == SelectSeq(d, Present)

RECURSIVE SumSeq(_)
SumSeq(s) == IF s = <<>> THEN 0 ELSE Product(Head(s)) + SumSeq(Tail(s))

NotionalFirstTwo(d) == SumSeq(Terms(SubSeq(d, 1, MinGroupSize)))

Notional(d) == SumSeq(Terms(d))

EnoughRecordsMoreThan(d) == Len(d) > MinGroupSize

EnoughRecordsAny(d) == Len(d) >= 1

EnoughRecordsPresent(d) == Len(Terms(d)) >= MinGroupSize

EnoughRecords(d) == Len(d) >= MinGroupSize

OverThresholdOrEqual(n) == n >= Threshold * CentsPerUnit

OverThreshold(n) == n > Threshold * CentsPerUnit

SumRaises(d) == \E k \in 1..Len(Terms(d)) : ~CanMultiply(Terms(d)[k])

Criteria(e) == EnoughRecords(e.value) /\ OverThreshold(Notional(e.value))

CriteriaRaises(sd) == \E k \in 1..Len(sd) : EnoughRecords(sd[k].value) /\ SumRaises(sd[k].value)

Selected(sd) ==
    LET chosen == SelectSeq(sd, Criteria)
    IN  [k \in 1..Len(chosen) |-> chosen[k].key]

RECURSIVE Grouped(_, _)
Grouped(sd, batch) ==
    IF batch = <<>> THEN sd ELSE Grouped(GroupStep(sd, Head(batch)), Tail(batch))

UniverseSelection(batch) == Selected(Grouped(<<>>, batch))

----------------------------------------------------------------------------
(* Initialize *)

Init ==
    /\ pc = "Initialize"
    /\ history = <<>>
    /\ dateIndex = 0
    /\ error = "none"
    /\ data = <<>>
    /\ datumIndex = 0
    /\ symbol_data = <<>>
    /\ result = <<>>
    /\ log = 0

History ==
    /\ pc = "Initialize"
    /\ \E h \in Histories : history' = h
    /\ pc' = "CheckCount"
    /\ UNCHANGED <<dateIndex, error, data, datumIndex, symbol_data, result, log>>

CountIsTooMany(h) == Len(h) > ExpectedHistoryCount

CountIsWrong(h) == Len(h) # ExpectedHistoryCount

CheckCount ==
    /\ pc = "CheckCount"
    /\ IF CountIsWrong(history)
       THEN /\ pc' = "Raised"
            /\ error' = "Unexpected history count"
            /\ UNCHANGED dateIndex
       ELSE /\ pc' = "ForDate"
            /\ dateIndex' = 1
            /\ UNCHANGED error
    /\ UNCHANGED <<history, data, datumIndex, symbol_data, result, log>>

TooFewRecords(n) == n < MinHistoryRecords

ForDate ==
    /\ pc = "ForDate"
    /\ dateIndex <= Len(history)
    /\ IF TooFewRecords(history[dateIndex])
       THEN /\ pc' = "Raised"
            /\ error' = "Unexpected historical universe data"
            /\ UNCHANGED dateIndex
       ELSE /\ dateIndex' = dateIndex + 1
            /\ UNCHANGED <<pc, error>>
    /\ UNCHANGED <<history, data, datumIndex, symbol_data, result, log>>

InitializeDone ==
    /\ pc = "ForDate"
    /\ dateIndex > Len(history)
    /\ pc' = "Idle"
    /\ UNCHANGED <<history, dateIndex, error, data, datumIndex, symbol_data, result, log>>

----------------------------------------------------------------------------
(* UniverseSelection *)

KeptSymbolData(sd) == sd

NewSymbolData(sd) == <<>>

Invoke(batch) ==
    /\ log + Len(batch) <= MaxLog
    /\ data' = batch
    /\ symbol_data' = NewSymbolData(symbol_data)
    /\ datumIndex' = 1
    /\ pc' = "ForDatum"
    /\ UNCHANGED <<history, dateIndex, error, result, log>>

ForDatum ==
    /\ pc = "ForDatum"
    /\ datumIndex <= Len(data)
    /\ log' = log + 1
    /\ symbol_data' = GroupStep(symbol_data, data[datumIndex])
    /\ datumIndex' = datumIndex + 1
    /\ UNCHANGED <<pc, history, dateIndex, error, data, result>>

Return ==
    /\ pc = "ForDatum"
    /\ datumIndex > Len(data)
    /\ IF CriteriaRaises(symbol_data)
       THEN /\ pc' = "Raised"
            /\ error' = "TypeError"
            /\ UNCHANGED result
       ELSE /\ pc' = "Returned"
            /\ result' = Selected(symbol_data)
            /\ UNCHANGED error
    /\ UNCHANGED <<history, dateIndex, data, datumIndex, symbol_data, log>>

FirstCall ==
    /\ pc = "Idle"
    /\ \E batch \in Batches : Invoke(batch)

Call ==
    /\ pc \in {"Idle", "Returned"}
    /\ \E batch \in CallBatches : Invoke(batch)

----------------------------------------------------------------------------
Next ==
    \/ History
    \/ CheckCount
    \/ ForDate
    \/ InitializeDone
    \/ FirstCall
    \/ ForDatum
    \/ Return

Spec == Init /\ [][Next]_vars

NextCalls ==
    \/ History
    \/ CheckCount
    \/ ForDate
    \/ InitializeDone
    \/ Call
    \/ ForDatum
    \/ Return

SpecCalls == Init /\ [][NextCalls]_vars

----------------------------------------------------------------------------
(* What the claims speak of, stated over the batch itself *)

Returned == pc = "Returned"

ResultSet == {result[k] : k \in 1..Len(result)}

SymbolsOf(batch) == {batch[k].Symbol : k \in 1..Len(batch)}

IndicesOf(batch, s) == {k \in 1..Len(batch) : batch[k].Symbol = s}

CountOf(batch, s) == Cardinality(IndicesOf(batch, s))

BothPresent(x) == x.Shares # None /\ x.PricePerShare # None

Contribution(x) == IF BothPresent(x) THEN x.Shares[1] * x.PricePerShare[1] ELSE 0

RECURSIVE NotionalUpTo(_, _, _)
NotionalUpTo(batch, s, n) ==
    IF n = 0 THEN 0
    ELSE NotionalUpTo(batch, s, n - 1)
         + (IF batch[n].Symbol = s THEN Contribution(batch[n]) ELSE 0)

NotionalOf(batch, s) == NotionalUpTo(batch, s, Len(batch))

ThresholdCents == Threshold * CentsPerUnit

Qualifying(batch) ==
    {s \in Symbols : CountOf(batch, s) >= 2 /\ NotionalOf(batch, s) > ThresholdCents}

FirstIndexOf(batch, s) == CHOOSE k \in IndicesOf(batch, s) : \A j \in IndicesOf(batch, s) : k <= j

Permuted(batch) == {[k \in 1..Len(batch) |-> batch[p[k]]] : p \in Permutations(1..Len(batch))}

AsSet(seq) == {seq[k] : k \in 1..Len(seq)}

InitializeCompleted == pc \in {"Idle", "ForDatum", "Returned"} \/ (pc = "Raised" /\ error = "TypeError")

InitializeRaised == pc = "Raised" /\ error # "TypeError"

InitializeEnded == InitializeCompleted \/ InitializeRaised

----------------------------------------------------------------------------
(* C1: for every batch, the returned symbols are exactly those with at     *)
(* least 2 records in the batch and a notional, summed over the records    *)
(* with both fields present, strictly greater than 100000.                 *)
C1_ExactlyQualifying == Returned => ResultSet = Qualifying(data)

C1_Witness ==
    /\ Returned
    /\ ResultSet # {}
    /\ \E s \in SymbolsOf(data) : s \notin ResultSet /\ CountOf(data, s) >= 2

(* C2: every returned symbol is the symbol of a record of the batch, and   *)
(* the empty batch yields the empty result, also after earlier calls.      *)
C2_SubsetOfBatch ==
    Returned => /\ ResultSet \subseteq SymbolsOf(data)
                /\ (data = <<>> => result = <<>>)

C2_Witness ==
    /\ Returned
    /\ log > Len(data)
    /\ ResultSet # {}
    /\ ResultSet # Symbols

(* C3: a symbol with fewer than 2 records in the batch is never returned,  *)
(* however large the notional of its single record.                        *)
C3_SingleRecordExcluded ==
    Returned => \A s \in Symbols : CountOf(data, s) < 2 => s \notin ResultSet

C3_Witness ==
    /\ Returned
    /\ \E s \in Symbols : CountOf(data, s) = 1 /\ NotionalOf(data, s) > ThresholdCents

(* C4: the comparison is strict: a symbol with exactly 2 records whose     *)
(* notional is exactly 100000 is excluded, one whose notional is above     *)
(* 100000 (100000.01 being the nearest value) is included.                 *)
C4_StrictThreshold ==
    Returned =>
        \A s \in Symbols :
            CountOf(data, s) = 2 =>
                /\ (NotionalOf(data, s) = ThresholdCents => s \notin ResultSet)
                /\ (NotionalOf(data, s) > ThresholdCents => s \in ResultSet)

C4_Witness ==
    /\ Returned
    /\ \E s, t \in Symbols :
          /\ CountOf(data, s) = 2 /\ NotionalOf(data, s) = ThresholdCents
          /\ CountOf(data, t) = 2 /\ NotionalOf(data, t) = ThresholdCents + 1

(* C5: a record with an absent shares or price_per_share never makes       *)
(* UniverseSelection raise, and a symbol all of whose records lack a       *)
(* numeric field has notional 0 and is not returned.                       *)
AllAbsent(batch, s) == \A k \in IndicesOf(batch, s) : ~BothPresent(batch[k])

C5_AbsentFieldsTolerated ==
    /\ error # "TypeError"
    /\ Returned =>
          \A k \in 1..Len(symbol_data) :
              AllAbsent(data, symbol_data[k].key) =>
                  /\ Notional(symbol_data[k].value) = 0
                  /\ symbol_data[k].key \notin ResultSet

C5_Witness ==
    /\ Returned
    /\ \E s \in SymbolsOf(data) : CountOf(data, s) >= 2 /\ AllAbsent(data, s)
    /\ \E k \in 1..Len(data) : data[k].Shares = None /\ data[k].PricePerShare # None
    /\ \E k \in 1..Len(data) : data[k].Shares # None /\ data[k].PricePerShare = None

(* C6: after any sequence of earlier invocations, the call on a batch      *)
(* returns the set that the call on that batch returns as the first call.  *)
C6_NoHiddenState == Returned => ResultSet = AsSet(UniverseSelection(data))

C6_Witness ==
    /\ Returned
    /\ log >= 2 * Len(data)
    /\ Len(data) >= 2
    /\ ResultSet # {}

(* C7: Initialize raises when the history holds a number of periods other  *)
(* than 1 (checked first) and when the period holds fewer than 300         *)
(* records; it completes only with exactly one period of at least 300.     *)
C7_HistoryChecks ==
    /\ InitializeEnded /\ Len(history) # 1
          => pc = "Raised" /\ error = "Unexpected history count"
    /\ InitializeEnded /\ Len(history) = 1 /\ history[1] < 300
          => pc = "Raised" /\ error = "Unexpected historical universe data"
    /\ InitializeCompleted => Len(history) = 1 /\ history[1] >= 300
    /\ Len(history) = 1 /\ history[1] >= 300 => ~InitializeRaised

C7_Witness ==
    /\ pc = "Raised"
    /\ error = "Unexpected history count"
    /\ Len(history) = 2
    /\ history[1] < 300

(* C8: no symbol appears twice in the returned list.                       *)
C8_NoDuplicates ==
    Returned => \A i, j \in 1..Len(result) : i # j => result[i] # result[j]

C8_Witness ==
    /\ Returned
    /\ Len(result) >= 1
    /\ CountOf(data, result[1]) >= 3

(* C9: the at-least-2 test counts records with an absent field: a symbol   *)
(* with one record whose shares * price_per_share exceeds 100000 and one   *)
(* further record with an absent numeric field is returned.                *)
OneLargeOneAbsent(batch, s) ==
    /\ CountOf(batch, s) = 2
    /\ \E j, k \in IndicesOf(batch, s) :
          /\ j # k
          /\ BothPresent(batch[j]) /\ Contribution(batch[j]) > ThresholdCents
          /\ ~BothPresent(batch[k])

C9_AbsentRecordsCounted ==
    Returned => \A s \in Symbols : OneLargeOneAbsent(data, s) => s \in ResultSet

C9_Witness == Returned /\ \E s \in Symbols : OneLargeOneAbsent(data, s)

(* C10: the returned set is the same for every permutation of the batch;   *)
(* the returned list is in the order of first appearance of its symbols.   *)
C10_OrderIndependent ==
    Returned =>
        /\ \A b \in Permuted(data) : AsSet(UniverseSelection(b)) = ResultSet
        /\ \A i, j \in 1..Len(result) :
              i < j => FirstIndexOf(data, result[i]) < FirstIndexOf(data, result[j])

C10_Witness ==
    /\ Returned
    /\ Len(result) = 2
    /\ \E b \in Permuted(data) : UniverseSelection(b) # result

====
